---------------------------- MODULE Spec2Model ----------------------------
(***************************************************************************)
(* Encrypted File Transfer Server: the protocol engine of server.py,       *)
(* protocol.py, database.py and encryption.py as a state machine.          *)
(*                                                                         *)
(* Bytes objects are sequences of integers 0..255, str objects sequences   *)
(* of code points.  A request is the byte string a client sends; the       *)
(* codec operators compute on it as struct.unpack and slicing do.          *)
(*                                                                         *)
(* Names are looked up as Python looks them up.  server.py reads           *)
(* protocol.RequestCode, protocol.ResponseCode,                            *)
(* protocol.EncryptedKeyResponse, protocol.SendFileRequest,                *)
(* protocol.MessageReceivedResponse and protocol.MsgRecvResponse, none of  *)
(* which protocol.py defines (ProtocolNames): evaluating one raises        *)
(* AttributeError, and the statement that does it is where the method is   *)
(* left; the statements after it are not reached.  Server.__init__ does   *)
(* so at line 36, so self.requestHandle is never assigned; main.py does    *)
(* not get that far, it reads utils.parsePort (line 12), which utils.py    *)
(* does not define (it defines parse_port).  The callbacks and handlers    *)
(* are modelled as they run on a Server object all the same: Spec calls    *)
(* read and accept as start would, SpecHandlers calls each handler as read *)
(* would if it had the table.                                              *)
(***************************************************************************)
EXTENDS Integers, Sequences, FiniteSets, TLC

(***************************************************************************)
(* protocol.py constants                                                   *)
(***************************************************************************)
SERVER_VERSION == 3
DEFAULT_VALUE == 0
HEADER_SIZE == 7
CLIENT_ID_SIZE == 16
CONTENT_SIZE == 4
NAME_SIZE == 255
FILE_NAME_SIZE == 255
PATH_NAME_SIZE == 255
PUBLIC_KEY_SIZE == 160
AES_KEY_SIZE == 16
CHECKSUM_SIZE == 4

REQUEST_REGISTRATION == 1100
REQUEST_SEND_PUBLIC_KEY == 1101
REQUEST_SEND_FILE == 1103
REQUEST_CRC_VALID == 1104
REQUEST_CRC_INVALID == 1005
REQUEST_CRC_INVALID_FOURTH_TIME == 1106

RESPONSE_REGISTRATION_SUCCESS == 2100
RESPONSE_REGISTRATION_FAILED == 2101
RESPONSE_AES_KEY == 2102
RESPONSE_SUCCESS_FILE_WITH_CRC == 2103
RESPONSE_MSG_RECEIVED_THANKS == 2104
RESPONSE_ERROR == 9999

(* the names the module protocol defines *)
ProtocolNames ==
    {"struct", "Enum",
     "SERVER_VERSION", "DEFAULT_VALUE", "HEADER_SIZE", "CLIENT_ID_SIZE", "CONTENT_SIZE",
     "NAME_SIZE", "FILE_NAME_SIZE", "PATH_NAME_SIZE", "PUBLIC_KEY_SIZE", "AES_KEY_SIZE",
     "CHECKSUM_SIZE",
     "ERequestCode", "EResponseCode", "RequestHeader", "ResponseHeader",
     "RegistrationRequest", "SuccessRegistrationResponse", "FailedRegistrationResponse",
     "PublicKeyRequest", "AESKeyResponse", "FileSendRequest",
     "FileReceivedWithCRCResponse", "CRCValidRequest", "CRCNotValidRequest",
     "CRCNotValidFourthTimeRequest"}

(* server.py constant *)
PACKET_SIZE == 1024

(* sizes fixed by the libraries the server calls *)
SEALED_KEY_SIZE == 128
AES_BLOCK_SIZE == 16

(***************************************************************************)
(* Bytes and str helpers (Python slicing, struct, bytes.partition,         *)
(* bytes.decode, str.encode)                                               *)
(***************************************************************************)
Min(a, b) == IF a < b THEN a ELSE b

(* data[a:b] for 0 <= a, 0 <= b *)
Slice(data, a, b) == SubSeq(data, a + 1, Min(b, Len(data)))

(* bytearray(n) / bytes(n): n zero bytes, for n up to PACKET_SIZE *)
ZeroBlock == SubSeq([i \in 1..PACKET_SIZE |-> 0], 1, PACKET_SIZE)
Zeros(n) == SubSeq(ZeroBlock, 1, n)

(* struct.pack("<B", v), "<H", "<L": little-endian, failing out of range *)
PackB(v) == <<v % 256>>
PackH(v) == <<v % 256, (v \div 256) % 256>>
PackL(v) == <<v % 256, (v \div 256) % 256, (v \div 65536) % 256, (v \div 16777216) % 256>>

(* struct.unpack("<H", s), "<L": s has the exact size *)
UnpackH(s) == s[1] + 256 * s[2]
UnpackL(s) == s[1] + 256 * s[2] + 65536 * s[3] + 16777216 * s[4]

(* struct.pack(f"<{n}s", b): b truncated or NUL-padded to n bytes *)
PackS(n, b) == IF Len(b) >= n THEN SubSeq(b, 1, n) ELSE b \o Zeros(n - Len(b))

(* b.partition(b'\0')[0]: the bytes before the first NUL, all of b if none *)
RECURSIVE BeforeNul(_)
BeforeNul(b) ==
    IF b = <<>> \/ Head(b) = 0 THEN <<>> ELSE <<Head(b)>> \o BeforeNul(Tail(b))

IsCont(x) == x >= 128 /\ x <= 191

(* bytes.decode('utf-8'), strict: [ok, s] with s the code points *)
RECURSIVE Utf8Decode(_)
Utf8Decode(b) ==
    IF b = <<>> THEN [ok |-> TRUE, s |-> <<>>]
    ELSE LET b1 == b[1]
             n  == IF b1 < 128 THEN 1
                   ELSE IF b1 >= 194 /\ b1 <= 223 THEN 2
                   ELSE IF b1 >= 224 /\ b1 <= 239 THEN 3
                   ELSE IF b1 >= 240 /\ b1 <= 244 THEN 4
                   ELSE 0
             wellFormed ==
                 /\ n > 0
                 /\ Len(b) >= n
                 /\ \A i \in 2..n : IsCont(b[i])
                 /\ (b1 = 224 => b[2] >= 160)
                 /\ (b1 = 237 => b[2] <= 159)
                 /\ (b1 = 240 => b[2] >= 144)
                 /\ (b1 = 244 => b[2] <= 143)
             cp == IF n = 1 THEN b1
                   ELSE IF n = 2 THEN (b1 - 192) * 64 + (b[2] - 128)
                   ELSE IF n = 3 THEN (b1 - 224) * 4096 + (b[2] - 128) * 64 + (b[3] - 128)
                   ELSE (b1 - 240) * 262144 + (b[2] - 128) * 4096
                        + (b[3] - 128) * 64 + (b[4] - 128)
         IN IF ~wellFormed THEN [ok |-> FALSE, s |-> <<>>]
            ELSE LET rest == Utf8Decode(SubSeq(b, n + 1, Len(b)))
                 IN IF rest.ok THEN [ok |-> TRUE, s |-> <<cp>> \o rest.s]
                    ELSE [ok |-> FALSE, s |-> <<>>]

(* str.encode('utf-8'): how sqlite hands a TEXT value back under            *)
(* text_factory = bytes                                                    *)
RECURSIVE Utf8Encode(_)
Utf8Encode(s) ==
    IF s = <<>> THEN <<>>
    ELSE LET c == s[1]
             e == IF c < 128 THEN <<c>>
                  ELSE IF c < 2048 THEN <<192 + (c \div 64), 128 + (c % 64)>>
                  ELSE IF c < 65536
                       THEN <<224 + (c \div 4096), 128 + ((c \div 64) % 64),
                              128 + (c % 64)>>
                  ELSE <<240 + (c \div 262144), 128 + ((c \div 4096) % 64),
                         128 + ((c \div 64) % 64), 128 + (c % 64)>>
         IN e \o Utf8Encode(Tail(s))

(* str.isalpha() and str.isspace() of one character, for code points       *)
(* below 256 (ASCII and Latin-1)                                           *)
IsAlpha(ch) ==
    \/ ch >= 65 /\ ch <= 90
    \/ ch >= 97 /\ ch <= 122
    \/ ch \in {170, 181, 186}
    \/ ch >= 192 /\ ch <= 255 /\ ch \notin {215, 247}
IsSpace(ch) == ch \in {9, 10, 11, 12, 13, 28, 29, 30, 31, 32, 133, 160}


(***************************************************************************)
(* Python values whose type the code depends on: a bytes object, a str, an *)
(* int, or the 1-tuple struct.unpack returns when [0] is not taken.        *)
(***************************************************************************)
PyBytes(b) == [t |-> "bytes", v |-> b]
PyStr(s) == [t |-> "str", v |-> s]
PyInt(n) == [t |-> "int", v |-> n]
PyTuple(x) == [t |-> "tuple", v |-> x]

(***************************************************************************)
(* protocol.py: request decoding                                           *)
(***************************************************************************)
(* RequestHeader.__init__: the empty header; SIZE = 23 *)
RequestHeader_init == [clientID |-> <<>>, version |-> DEFAULT_VALUE,
                       code |-> DEFAULT_VALUE, payloadSize |-> DEFAULT_VALUE]
RequestHeader_SIZE == CLIENT_ID_SIZE + HEADER_SIZE

(* RequestHeader.unpack: [ok, h]; on failure h is reset by __init__ *)
RequestHeader_unpack(data) ==
    LET cid == Slice(data, 0, CLIENT_ID_SIZE)
        header_data == Slice(data, CLIENT_ID_SIZE, CLIENT_ID_SIZE + HEADER_SIZE)
    IN IF Len(cid) = CLIENT_ID_SIZE /\ Len(header_data) = HEADER_SIZE
       THEN [ok |-> TRUE,
             h |-> [clientID |-> cid,
                    version |-> header_data[1],
                    code |-> UnpackH(SubSeq(header_data, 2, 3)),
                    payloadSize |-> UnpackL(SubSeq(header_data, 4, 7))]]
       ELSE [ok |-> FALSE, h |-> RequestHeader_init]

(* a variant whose except clause does not reset the header *)
RequestHeader_unpack_self_no_reset(self, data) ==
    LET cid == Slice(data, 0, CLIENT_ID_SIZE)
    IN [ok |-> FALSE,
        h |-> IF Len(cid) = CLIENT_ID_SIZE THEN [self EXCEPT !.clientID = cid] ELSE self]

(* RequestHeader.unpack statement by statement, on a header object self    *)
(* that may have been filled before: clientID is assigned first, then      *)
(* version, code and payloadSize together; struct.error at either unpack   *)
(* leads to the except clause, which calls __init__                        *)
RequestHeader_unpack_self(self, data) ==
    LET header(with_id, header_data) ==
            IF Len(header_data) # HEADER_SIZE
            THEN [ok |-> FALSE, h |-> RequestHeader_init]
            ELSE [ok |-> TRUE,
                  h |-> [with_id EXCEPT
                            !.version = header_data[1],
                            !.code = UnpackH(SubSeq(header_data, 2, 3)),
                            !.payloadSize = UnpackL(SubSeq(header_data, 4, 7))]]
        client(cid) ==
            IF Len(cid) # CLIENT_ID_SIZE
            THEN [ok |-> FALSE, h |-> RequestHeader_init]
            ELSE header([self EXCEPT !.clientID = cid],
                        Slice(data, CLIENT_ID_SIZE, CLIENT_ID_SIZE + HEADER_SIZE))
    IN client(Slice(data, 0, CLIENT_ID_SIZE))

(* the name field: 255 bytes, cut at the first NUL, decoded as UTF-8 *)
UnpackName(name_data) ==
    IF Len(name_data) # NAME_SIZE THEN [ok |-> FALSE, s |-> <<>>]
    ELSE Utf8Decode(BeforeNul(name_data))

(* RegistrationRequest.unpack: name is a str on success, b"" on failure *)
RegistrationRequest_unpack(data) ==
    LET unpacked(hu, name) ==
            IF ~hu.ok \/ ~name.ok
            THEN [ok |-> FALSE, header |-> hu.h, name |-> PyBytes(<<>>)]
            ELSE [ok |-> TRUE, header |-> hu.h, name |-> PyStr(name.s)]
    IN unpacked(RequestHeader_unpack(data),
                UnpackName(Slice(data, RequestHeader_SIZE, RequestHeader_SIZE + NAME_SIZE)))

(* PublicKeyRequest.unpack *)
PublicKeyRequest_unpack(data) ==
    LET unpacked(hu, name, key_data) ==
            IF ~hu.ok \/ ~name.ok \/ Len(key_data) # PUBLIC_KEY_SIZE
            THEN [ok |-> FALSE, header |-> hu.h, name |-> PyBytes(<<>>),
                  publicKey |-> <<>>]
            ELSE [ok |-> TRUE, header |-> hu.h, name |-> PyStr(name.s),
                  publicKey |-> key_data]
    IN unpacked(RequestHeader_unpack(data),
                UnpackName(Slice(data, RequestHeader_SIZE, RequestHeader_SIZE + NAME_SIZE)),
                Slice(data, RequestHeader_SIZE + NAME_SIZE,
                      RequestHeader_SIZE + NAME_SIZE + PUBLIC_KEY_SIZE))

(* FileSendRequest.unpack: contentSize and fileName are kept as the tuples *)
(* struct.unpack returns; the class has no attribute fileContent           *)
FileSendRequest_unpack(data) ==
    LET packet_size == Len(data)
        offset == RequestHeader_SIZE + CLIENT_ID_SIZE
        offset2 == offset + CONTENT_SIZE + FILE_NAME_SIZE
        bytes_left_to_read == packet_size - offset2
        unpacked(hu, client_id, size_data, file_name) ==
            IF \/ ~hu.ok
               \/ Len(client_id) # CLIENT_ID_SIZE
               \/ Len(size_data) # CONTENT_SIZE
               \/ Len(file_name) # FILE_NAME_SIZE
            THEN [ok |-> FALSE, header |-> hu.h, clientID |-> <<>>,
                  contentSize |-> PyInt(DEFAULT_VALUE), fileName |-> PyBytes(<<>>),
                  msgContent |-> <<>>]
            ELSE [ok |-> TRUE, header |-> hu.h, clientID |-> client_id,
                  contentSize |-> PyTuple(UnpackL(size_data)),
                  fileName |-> PyTuple(file_name),
                  msgContent |-> Slice(data, offset2, offset2 + bytes_left_to_read)]
    IN unpacked(RequestHeader_unpack(data),
                Slice(data, RequestHeader_SIZE, RequestHeader_SIZE + CLIENT_ID_SIZE),
                Slice(data, offset, offset + CONTENT_SIZE),
                Slice(data, offset + CONTENT_SIZE, offset + CONTENT_SIZE + FILE_NAME_SIZE))

(* CRCValidRequest.unpack, CRCNotValidRequest.unpack and                   *)
(* CRCNotValidFourthTimeRequest.unpack: the same body three times          *)
CRCRequest_unpack(data) ==
    LET offset == RequestHeader_SIZE + CLIENT_ID_SIZE
        unpacked(hu, client_id, file_name) ==
            IF \/ ~hu.ok
               \/ Len(client_id) # CLIENT_ID_SIZE
               \/ Len(file_name) # FILE_NAME_SIZE
            THEN [ok |-> FALSE, header |-> hu.h, clientID |-> <<>>,
                  fileName |-> PyBytes(<<>>)]
            ELSE [ok |-> TRUE, header |-> hu.h, clientID |-> client_id,
                  fileName |-> PyTuple(file_name)]
    IN unpacked(RequestHeader_unpack(data),
                Slice(data, RequestHeader_SIZE, RequestHeader_SIZE + CLIENT_ID_SIZE),
                Slice(data, offset + CONTENT_SIZE, offset + CONTENT_SIZE + FILE_NAME_SIZE))

CRCValidRequest_unpack(data) == CRCRequest_unpack(data)
CRCNotValidRequest_unpack(data) == CRCRequest_unpack(data)
CRCNotValidFourthTimeRequest_unpack(data) == CRCRequest_unpack(data)

(***************************************************************************)
(* protocol.py: response encoding.  Every pack() returns b"" when          *)
(* struct.pack raises.                                                     *)
(***************************************************************************)
(* ResponseHeader.__init__(code) *)
ResponseHeader(code) == [version |-> SERVER_VERSION, code |-> code,
                         payloadSize |-> DEFAULT_VALUE]

(* ResponseHeader.pack *)
ResponseHeader_pack(h) ==
    IF h.version \in 0..255 /\ h.code \in 0..65535 /\ h.payloadSize >= 0
    THEN PackB(h.version) \o PackH(h.code) \o PackL(h.payloadSize)
    ELSE <<>>

(* SuccessRegistrationResponse.pack *)
SuccessRegistrationResponse_pack(r) ==
    ResponseHeader_pack(r.header) \o PackS(CLIENT_ID_SIZE, r.clientID)

(* FailedRegistrationResponse.pack *)
FailedRegistrationResponse_pack(r) == ResponseHeader_pack(r.header)

(* AESKeyResponse.pack: sends self.AESKey; an attribute encryptedKey set   *)
(* on the object is not read                                               *)
AESKeyResponse_pack(r) ==
    ResponseHeader_pack(r.header) \o PackS(CLIENT_ID_SIZE, r.clientID)
        \o PackS(AES_KEY_SIZE, r.AESKey)

(* FileReceivedWithCRCResponse.pack: contentSize, fileName and ckSum are   *)
(* packed with the "s" format, which takes a bytes object only             *)
FileReceivedWithCRCResponse_pack(r) ==
    IF r.contentSize.t = "bytes" /\ r.fileName.t = "bytes" /\ r.ckSum.t = "bytes"
    THEN ResponseHeader_pack(r.header) \o PackS(CLIENT_ID_SIZE, r.clientID)
             \o PackS(CONTENT_SIZE, r.contentSize.v)
             \o PackS(FILE_NAME_SIZE, r.fileName.v)
             \o PackS(CHECKSUM_SIZE, r.ckSum.v)
    ELSE <<>>

(***************************************************************************)
(* database.py.  A table is the sequence of its rows in insertion order.   *)
(* A column holds what SELECT returns under text_factory = bytes, except   *)
(* Name, FileName and PathName, which hold the str that was stored.        *)
(***************************************************************************)
(* an int bound to a CHAR(n) column is stored as its decimal text: 0 is    *)
(* stored as '0' and read back as b'0'                                     *)
SqlTextOfZero == <<48>>

(* a bound parameter equals a stored TEXT value only if it is a str *)
SqlEqText(param, text) == param.t = "str" /\ param.v = text

(* Client.__init__ and the row store_client inserts for it *)
Client(cid, cname, last_seen) ==
    [ID |-> cid, Name |-> cname, PublicKey |-> DEFAULT_VALUE,
     LastSeen |-> last_seen, AESKey |-> DEFAULT_VALUE]

(* Client.validate *)
Client_validate(client) ==
    /\ Len(client.ID) = CLIENT_ID_SIZE
    /\ client.Name.v # <<>> /\ Len(client.Name.v) < NAME_SIZE
    /\ client.LastSeen # 0

(* File.validate *)
File_validate(file) ==
    /\ Len(file.ID) = CLIENT_ID_SIZE
    /\ file.FileName # <<>> /\ Len(file.FileName) < FILE_NAME_SIZE
    /\ file.PathName # <<>> /\ Len(file.PathName) < PATH_NAME_SIZE
    /\ ~file.Verified

(* a lookup that finds no name *)
client_username_exists_never(clients, username) == FALSE

(* Database.client_username_exists *)
client_username_exists(clients, username) ==
    Len(SelectSeq(clients, LAMBDA r : SqlEqText(username, r.Name))) > 0

(* Database.client_id_exists *)
client_id_exists(clients, client_id) ==
    Len(SelectSeq(clients, LAMBDA r : r.ID = client_id)) > 0

(* an INSERT into a table whose ID column is no key *)
InsertClient_no_primary_key(clients, client) ==
    [ret |-> TRUE,
     clients |-> Append(clients,
         [ID |-> client.ID, Name |-> client.Name.v, PublicKey |-> SqlTextOfZero,
          LastSeen |-> client.LastSeen, AESKey |-> SqlTextOfZero])]

(* INSERT INTO clients: ID is the PRIMARY KEY; a duplicate id raises       *)
(* IntegrityError, which execute() turns into None                         *)
InsertClient(clients, client) ==
    IF \E i \in 1..Len(clients) : clients[i].ID = client.ID
    THEN [ret |-> FALSE, clients |-> clients]
    ELSE [ret |-> TRUE,
          clients |-> Append(clients,
              [ID |-> client.ID, Name |-> client.Name.v, PublicKey |-> SqlTextOfZero,
               LastSeen |-> client.LastSeen, AESKey |-> SqlTextOfZero])]

(* Database.store_client: [ret, clients] *)
store_client(clients, client) ==
    IF ~Client_validate(client) THEN [ret |-> FALSE, clients |-> clients]
    ELSE InsertClient(clients, client)

(* Database.set_last_seen: the table after the UPDATE *)
set_last_seen(clients, client_id, time) ==
    [i \in 1..Len(clients) |->
        IF clients[i].ID = client_id THEN [clients[i] EXCEPT !.LastSeen = time]
        ELSE clients[i]]

(* Database.set_public_key: [ret, clients]; the UPDATE commits and returns *)
(* True whether or not a row matched                                       *)
set_public_key(clients, client_id, public_key) ==
    [ret |-> TRUE,
     clients |-> [i \in 1..Len(clients) |->
        IF clients[i].ID = client_id THEN [clients[i] EXCEPT !.PublicKey = public_key]
        ELSE clients[i]]]

(* Database.get_client_id: [raised, v]; [0][0] of an empty result raises   *)
(* IndexError                                                              *)
get_client_id(clients, name) ==
    LET rows == SelectSeq(clients, LAMBDA r : SqlEqText(name, r.Name))
    IN IF rows = <<>> THEN [raised |-> TRUE, v |-> <<>>]
       ELSE [raised |-> FALSE, v |-> rows[1].ID]

(* Database.get_client_name: [raised, v], v the name as bytes *)
get_client_name(clients, client_id) ==
    LET rows == SelectSeq(clients, LAMBDA r : r.ID = client_id)
    IN IF rows = <<>> THEN [raised |-> TRUE, v |-> <<>>]
       ELSE [raised |-> FALSE, v |-> Utf8Encode(rows[1].Name)]

(* Database.get_client_aes: [found, v]; None when no row matches *)
get_client_aes(clients, client_id) ==
    LET rows == SelectSeq(clients, LAMBDA r : r.ID = client_id)
    IN IF rows = <<>> THEN [found |-> FALSE, v |-> <<>>]
       ELSE [found |-> TRUE, v |-> rows[1].AESKey]

(* Database.update_aes_key: [ret, clients]; ret is "False" when the id is  *)
(* unknown, else what execute returns                                      *)
update_aes_key(clients, client_id, key) ==
    IF ~client_id_exists(clients, client_id)
    THEN [ret |-> "False", clients |-> clients]
    ELSE [ret |-> "True",
          clients |-> [i \in 1..Len(clients) |->
             IF clients[i].ID = client_id THEN [clients[i] EXCEPT !.AESKey = key]
             ELSE clients[i]]]

(* Database.insert_new_file: INSERT OR IGNORE keeps an existing row with   *)
(* the same ID                                                             *)
insert_new_file(files, file) ==
    IF ~File_validate(file) THEN files
    ELSE IF \E i \in 1..Len(files) : files[i].ID = file.ID THEN files
    ELSE Append(files, file)

(* Database.update_file_verified: rows are selected by PathName alone *)
update_file_verified(files, file_path, bool_val) ==
    [i \in 1..Len(files) |->
        IF SqlEqText(file_path, files[i].PathName)
        THEN [files[i] EXCEPT !.Verified = bool_val]
        ELSE files[i]]

(***************************************************************************)
(* Bounds of the model                                                     *)
(***************************************************************************)
(* how many distinct values uuid.uuid4() draws from *)
NumIds == 2
(* how many connections can be open at once *)
NumConns == 3
(* how many times the handlers read the clock *)
MaxRequests == 3
(* how many segments the longest response passed to write alone fills *)
MaxSegments == 2

(***************************************************************************)
(* uuid, encryption.py and the Crypto library                              *)
(***************************************************************************)
(* bytes.fromhex(uuid.uuid4().hex): 16 bytes with the version and variant  *)
(* bits of a random UUID                                                   *)
Uuid4(k) == [i \in 1..CLIENT_ID_SIZE |-> IF i = 7 THEN 64 + k
                                         ELSE IF i = 9 THEN 128 + k ELSE k]
Uuids == {Uuid4(k) : k \in 1..NumIds}

(* encryption.create_aes_key: get_random_bytes(16) *)
AesKey(k) == [i \in 1..AES_KEY_SIZE |-> 16 * k + i]

(* the 160-byte public keys RSA.importKey accepts; any other raises        *)
(* ValueError                                                              *)
RsaKey(k) == <<48, 129, 157>> \o [i \in 1..(PUBLIC_KEY_SIZE - 3) |-> (k + i) % 256]
RsaPublicKeys == {RsaKey(1)}

(* PKCS1_OAEP encryption under a 1024-bit key: an opaque 128-byte blob     *)
(* that depends on the data and on the key                                 *)
OaepEncrypt(data, key) ==
    [i \in 1..SEALED_KEY_SIZE |-> (data[((i - 1) % Len(data)) + 1] + key[i + 3] + 1) % 256]

(* encryption.encrypt_aes_key_with_rsa_key: [raised, v] *)
encrypt_aes_key_with_rsa_key(data, key) ==
    IF key \notin RsaPublicKeys THEN [raised |-> TRUE, v |-> <<>>]
    ELSE [raised |-> FALSE, v |-> OaepEncrypt(data, key)]

(* zlib.crc32(data): CRC-32 with the reflected polynomial 0xEDB88320, the   *)
(* register kept as 32 bits, lowest first; the result is given as the four *)
(* bytes struct.pack("<L", crc) encodes it to                              *)
CrcPolynomial ==
    <<0, 0, 0, 0, 0, 1, 0, 0, 1, 1, 0, 0, 0, 0, 0, 1,
      0, 0, 0, 1, 1, 1, 0, 1, 1, 0, 1, 1, 0, 1, 1, 1>>

BitXor(a, b) == [i \in 1..Len(a) |-> (a[i] + b[i]) % 2]

RECURSIVE CrcShift(_, _)
CrcShift(c, n) ==
    IF n = 0 THEN c
    ELSE CrcShift(IF c[1] = 1 THEN BitXor(Tail(c) \o <<0>>, CrcPolynomial)
                  ELSE Tail(c) \o <<0>>,
                  n - 1)

RECURSIVE CrcUpdate(_, _)
CrcUpdate(c, data) ==
    IF data = <<>> THEN c
    ELSE CrcUpdate(
            CrcShift(BitXor(c, [i \in 1..32 |->
                                  IF i <= 8 THEN (Head(data) \div (2 ^ (i - 1))) % 2 ELSE 0]),
                     8),
            Tail(data))

Crc32(data) ==
    LET bytes(c) ==
            [j \in 1..4 |->
                c[8 * j - 7] + 2 * c[8 * j - 6] + 4 * c[8 * j - 5] + 8 * c[8 * j - 4]
                + 16 * c[8 * j - 3] + 32 * c[8 * j - 2] + 64 * c[8 * j - 1] + 128 * c[8 * j]]
    IN bytes(BitXor(CrcUpdate([i \in 1..32 |-> 1], data), [i \in 1..32 |-> 1]))

(***************************************************************************)
(* server.py: Server.write                                                 *)
(*                                                                         *)
(* plan lists what the socket does at the successive conn.send calls:      *)
(* "all" (every byte taken), "partial" (only the first byte taken;     *)
(* send's return value is not read)     or "error" (send raises).       *)
(* Past the end of plan every send is "all".                               *)
(* The except clause concatenates a str and the socket, which raises       *)
(* TypeError: a failed send leaves write by an exception.                  *)
(* Result: [ret, segs, wire, plan]: ret "True" or "raise", segs the        *)
(* segments offered to send, wire the bytes the socket took, plan the      *)
(* outcomes left.                                                          *)
(***************************************************************************)
RECURSIVE write_loop(_, _, _, _, _, _)
write_loop(data, size, sent, plan, segs, wire) ==
    IF sent < size
    THEN LET leftover == IF size - sent > PACKET_SIZE THEN PACKET_SIZE ELSE size - sent
             part == Slice(data, sent, sent + leftover)
             to_send == IF Len(part) < PACKET_SIZE
                        THEN part \o Zeros(PACKET_SIZE - Len(part)) ELSE part
             outcome == IF plan = <<>> THEN "all" ELSE Head(plan)
             rest == IF plan = <<>> THEN <<>> ELSE Tail(plan)
         IN IF outcome = "error"
            THEN [ret |-> "raise", segs |-> Append(segs, to_send), wire |-> wire,
                  plan |-> rest]
            ELSE write_loop(data, size, sent + Len(to_send), rest,
                            Append(segs, to_send),
                            wire \o (IF outcome = "partial"
                                     THEN SubSeq(to_send, 1, 1) ELSE to_send))
    ELSE [ret |-> "True", segs |-> segs, wire |-> wire, plan |-> plan]

(* a variant that sends the data as one segment, as long as the data *)
write_unpadded(data, plan) ==
    [ret |-> "True", segs |-> <<data>>, wire |-> data, plan |-> plan]

write(data, plan) == write_loop(data, Len(data), 0, plan, <<>>, <<>>)

(***************************************************************************)
(* server.py: the request handlers.                                        *)
(*                                                                         *)
(* A handler is an operator of the tables, the data read and env, the      *)
(* values the handler draws from outside: env.uuid (uuid.uuid4()),         *)
(* env.plan (the socket, see write) and env.now (the clock).  Its result   *)
(* is                                                                      *)
(*   ret     "True", "False" (the value returned) or "raise" (left by an   *)
(*           exception)                                                    *)
(*   clients, files   the tables afterwards                                *)
(*   frames  the byte strings passed to write, in order                    *)
(*   wire    the bytes the socket took                                     *)
(*   plan    the socket outcomes left                                      *)
(*   ticks   how many times datetime.now() was read                        *)
(***************************************************************************)
Result(ret, clients, files, frames, wire, plan, ticks) ==
    [ret |-> ret, clients |-> clients, files |-> files, frames |-> frames,
     wire |-> wire, plan |-> plan, ticks |-> ticks]

(* return self.write(conn, frame) *)
Respond(clients, files, frame, plan, ticks) ==
    LET w == write(frame, plan)
    IN Result(w.ret, clients, files, <<frame>>, w.wire, w.plan, ticks)

(* return self.write(conn, frame) inside the try of lines 118-127: the     *)
(* exception write is left by is caught by the except of line 125, and     *)
(* line 127 calls write again, outside the try                             *)
RespondInTry(clients, files, frame, plan, ticks) ==
    LET again(w, w2) ==
            Result(w2.ret, clients, files, <<frame, frame>>, w.wire \o w2.wire,
                   w2.plan, ticks)
        first(w) ==
            IF w.ret = "raise" THEN again(w, write(frame, w.plan))
            ELSE Result(w.ret, clients, files, <<frame>>, w.wire, w.plan, ticks)
    IN first(write(frame, plan))

(* server.py line 119: not request.name != '' and all(ch.isalpha() or      *)
(* ch.isspace() for ch in request.name)                                    *)
NameRejected(name) ==
    /\ ~(name # PyStr(<<>>))
    /\ \A i \in 1..Len(name.v) : IsAlpha(name.v[i]) \/ IsSpace(name.v[i])

(* Server.handle_registration_request *)
handle_registration_request(clients, files, data, env) ==
    LET fail == FailedRegistrationResponse_pack(
                    [header |-> ResponseHeader(RESPONSE_REGISTRATION_FAILED)])
        success(client) ==
            SuccessRegistrationResponse_pack(
                [header |-> [ResponseHeader(RESPONSE_REGISTRATION_SUCCESS)
                                EXCEPT !.payloadSize = CLIENT_ID_SIZE],
                 clientID |-> client.ID])
        store(client, stored) ==
            IF ~stored.ret THEN Respond(clients, files, fail, env.plan, 1)
            ELSE Respond(stored.clients, files, success(client), env.plan, 1)
        create(client) == store(client, store_client(clients, client))
        handle(request) ==
            IF ~request.ok THEN Respond(clients, files, fail, env.plan, 0)
            ELSE IF NameRejected(request.name)
                 THEN RespondInTry(clients, files, fail, env.plan, 0)
            ELSE IF client_username_exists(clients, request.name)
                 THEN RespondInTry(clients, files, fail, env.plan, 0)
            ELSE create(Client(env.uuid, request.name, env.now + 1))
    IN handle(RegistrationRequest_unpack(data))

(* Server.handle_encrypted_key_response: line 142 reads                    *)
(* protocol.EncryptedKeyResponse and is left by AttributeError; lines      *)
(* 144-159 are not reached                                                 *)
handle_encrypted_key_response(clients, files, data, env) ==
    CASE "EncryptedKeyResponse" \notin ProtocolNames ->
            Result("raise", clients, files, <<>>, <<>>, env.plan, 0)

(* Server.handle_send_file_request: line 162 reads protocol.SendFileRequest *)
(* and is left by AttributeError, before the try of lines 169-181          *)
handle_send_file_request(clients, files, data, env) ==
    CASE "SendFileRequest" \notin ProtocolNames ->
            Result("raise", clients, files, <<>>, <<>>, env.plan, 0)

(* Server.handle_crc_valid_request: line 202 reads                         *)
(* protocol.MessageReceivedResponse and is left by AttributeError          *)
handle_crc_valid_request(clients, files, data, env) ==
    CASE "MessageReceivedResponse" \notin ProtocolNames ->
            Result("raise", clients, files, <<>>, <<>>, env.plan, 0)

(* a variant that also blanks the key stored for the client *)
handle_crc_invalid_request_forgets_key(clients, files, data, env) ==
    Result("True",
           update_aes_key(clients, RequestHeader_unpack(data).h.clientID,
                          Zeros(AES_KEY_SIZE)).clients,
           files, <<>>, <<>>, env.plan, 0)

(* Server.handle_crc_invalid_request: returns True without writing *)
handle_crc_invalid_request(clients, files, data, env) ==
    LET handle(request) ==
            IF get_client_name(clients, request.header.clientID).raised
            THEN Result("raise", clients, files, <<>>, <<>>, env.plan, 0)
            ELSE Result("True", clients, files, <<>>, <<>>, env.plan, 0)
    IN handle(CRCNotValidRequest_unpack(data))

(* Server.handle_crc_invalid_fourth_time_request: line 227 reads            *)
(* protocol.MsgRecvResponse and is left by AttributeError                  *)
handle_crc_invalid_fourth_time_request(clients, files, data, env) ==
    CASE "MsgRecvResponse" \notin ProtocolNames ->
            Result("raise", clients, files, <<>>, <<>>, env.plan, 0)

(***************************************************************************)
(* server.py: Server.__init__, Server.accept, Server.read, Server.start    *)
(***************************************************************************)
(* Server.__init__, lines 35-42: the dict display evaluates                *)
(* protocol.RequestCode for its first key and is left by AttributeError;   *)
(* self.requestHandle is not assigned, and reading it raises               *)
requestHandle ==
    CASE "RequestCode" \notin ProtocolNames -> [raised |-> TRUE]

(* the request codes of protocol.ERequestCode *)
RequestCodes ==
    {REQUEST_REGISTRATION, REQUEST_SEND_PUBLIC_KEY, REQUEST_SEND_FILE,
     REQUEST_CRC_VALID, REQUEST_CRC_INVALID, REQUEST_CRC_INVALID_FOURTH_TIME}

(* the handler methods of Server *)
Handlers ==
    {"handle_registration_request", "handle_encrypted_key_response",
     "handle_send_file_request", "handle_crc_valid_request",
     "handle_crc_invalid_request", "handle_crc_invalid_fourth_time_request"}

(* the handler method of that name called with (conn, data) *)
CallHandler(handler, clients, files, data, env) ==
    CASE handler = "handle_registration_request" ->
            handle_registration_request(clients, files, data, env)
      [] handler = "handle_encrypted_key_response" ->
            handle_encrypted_key_response(clients, files, data, env)
      [] handler = "handle_send_file_request" ->
            handle_send_file_request(clients, files, data, env)
      [] handler = "handle_crc_valid_request" ->
            handle_crc_valid_request(clients, files, data, env)
      [] handler = "handle_crc_invalid_request" ->
            handle_crc_invalid_request(clients, files, data, env)
      [] handler = "handle_crc_invalid_fourth_time_request" ->
            handle_crc_invalid_fourth_time_request(clients, files, data, env)

(* Server.read from the data received to the end of the callback.          *)
(* Result: handler and ret (the handler called and how it ended, "none"    *)
(* if none was called), raised (the callback was left by an exception,     *)
(* before sel.unregister and conn.close), closed, the tables, the frames   *)
(* passed to write, the bytes the socket took, the clock.                  *)
(* With data, line 60 reads self.requestHandle when the header decodes and *)
(* line 63 reads protocol.ResponseCode when it does not: both raise.       *)
read(clients, files, data, env) ==
    LET left == [handler |-> "none", ret |-> "none", raised |-> TRUE, closed |-> FALSE,
                 clients |-> clients, files |-> files, frames |-> <<>>, wire |-> <<>>,
                 now |-> env.now]
        parsed(request_header) ==
            CASE request_header.ok /\ requestHandle.raised -> left
              [] ~request_header.ok /\ "ResponseCode" \notin ProtocolNames -> left
    IN IF data = <<>>
       THEN [handler |-> "none", ret |-> "none", raised |-> FALSE, closed |-> TRUE,
             clients |-> clients, files |-> files, frames |-> <<>>, wire |-> <<>>,
             now |-> env.now]
       ELSE parsed(RequestHeader_unpack(data))

(***************************************************************************)
(* What clients send                                                       *)
(***************************************************************************)
(* the 23-byte request header a client encodes *)
RequestHeaderBytes(cid, code, payloadSize) ==
    PackS(CLIENT_ID_SIZE, cid) \o PackB(SERVER_VERSION) \o PackH(code) \o PackL(payloadSize)

RegistrationMsg(cid, name) ==
    RequestHeaderBytes(cid, REQUEST_REGISTRATION, NAME_SIZE) \o PackS(NAME_SIZE, name)

PublicKeyMsg(cid, name, key) ==
    RequestHeaderBytes(cid, REQUEST_SEND_PUBLIC_KEY, NAME_SIZE + PUBLIC_KEY_SIZE)
        \o PackS(NAME_SIZE, name) \o PackS(PUBLIC_KEY_SIZE, key)

SendFileMsg(cid, fname, content) ==
    RequestHeaderBytes(cid, REQUEST_SEND_FILE,
                       CLIENT_ID_SIZE + CONTENT_SIZE + FILE_NAME_SIZE + Len(content))
        \o PackS(CLIENT_ID_SIZE, cid) \o PackL(Len(content))
        \o PackS(FILE_NAME_SIZE, fname) \o content

(* requests 1104, 1105/1005 and 1106: client id, four bytes, file name *)
CrcMsg(code, cid, fname) ==
    RequestHeaderBytes(cid, code, CLIENT_ID_SIZE + FILE_NAME_SIZE)
        \o PackS(CLIENT_ID_SIZE, cid) \o Zeros(CONTENT_SIZE) \o PackS(FILE_NAME_SIZE, fname)

NoId == Zeros(CLIENT_ID_SIZE)
NameA == <<97>>
NameB == <<98>>
NameDigit == <<97, 49>>
NameBadUtf8 == <<255>>
FileF == <<102>>
BadKey == Zeros(PUBLIC_KEY_SIZE)

(* PKCS#7 padding and the stand-in cipher, as a client applies them *)
Pad(data, block) ==
    LET p == block - (Len(data) % block) IN data \o [i \in 1..p |-> p]
AesCbcEncrypt(key, pt) ==
    [i \in 1..Len(pt) |-> (pt[i] + key[((i - 1) % Len(key)) + 1]) % 256]

(* the SendFile request a client makes of the plaintext p: client id, file *)
(* name, and as content p padded and encrypted under key                   *)
UploadMsg(cid, fname, key, p) ==
    SendFileMsg(cid, fname, AesCbcEncrypt(key, Pad(p, AES_BLOCK_SIZE)))

(* the uploads clients send *)
Uploads == {UploadMsg(Uuid4(1), FileF, AesKey(1), <<1, 2, 3>>)}

Messages ==
    {RegistrationMsg(NoId, n) : n \in {NameA, NameDigit, <<>>, NameBadUtf8}}
    \cup {PublicKeyMsg(Uuid4(1), NameA, k) : k \in {RsaKey(1), BadKey}}
    \cup {PublicKeyMsg(Uuid4(1), NameB, RsaKey(1))}
    \cup Uploads
    \cup {CrcMsg(code, Uuid4(1), FileF) :
             code \in {REQUEST_CRC_VALID, REQUEST_CRC_INVALID,
                       REQUEST_CRC_INVALID_FOURTH_TIME,
                       1105,    \* no code of ERequestCode
                       1102}}   \* no code of ERequestCode
    (* a header and nothing else, for every request code *)
    \cup {RequestHeaderBytes(Uuid4(1), code, 0) : code \in RequestCodes}
    (* fewer bytes than a header *)
    \cup {Slice(RegistrationMsg(NoId, NameA), 0, 10)}

(* what the socket does at the first sends of a callback *)
Plans == {<<>>, <<"partial">>, <<"error">>, <<"error", "error">>}

(***************************************************************************)
(* The state machine                                                       *)
(***************************************************************************)
VARIABLES
    clients,   \* the clients table
    files,     \* the files table
    conns,     \* per connection slot: "closed", or "open" (registered for read)
    now,       \* how many times the clock has been read
    last,      \* the callback Server.start has just run: its input and what it
               \* did; Idle while the loop waits in sel.select()
    sent_uploads,  \* history, not held by the server and kept in SpecStored
                   \* only: the uploads that clients have sent so far
    failed         \* history, not held by the server and kept in Spec only: the
                   \* connections whose read callback an exception has left

vars == <<clients, files, conns, now, last, sent_uploads, failed>>

Conns == 1..NumConns

Idle == [conn |-> 0, data |-> <<>>, uuid |-> <<>>, plan |-> <<>>,
         handler |-> "none", ret |-> "none", raised |-> FALSE, closed |-> FALSE,
         frames |-> <<>>, wire |-> <<>>]

Init ==
    /\ clients = <<>>
    /\ files = <<>>
    /\ conns = [c \in Conns |-> "closed"]
    /\ now = 0
    /\ last = Idle
    /\ sent_uploads = {}
    /\ failed = {}

(* Server.accept: a new connection is registered for read; it gets the    *)
(* lowest free descriptor                                                  *)
accept(c) ==
    /\ last = Idle
    /\ conns[c] = "closed"
    /\ \A d \in Conns : d < c => conns[d] = "open"
    /\ conns' = [conns EXCEPT ![c] = "open"]
    /\ UNCHANGED <<clients, files, now, last, sent_uploads, failed>>

(* Server.start: the callback has returned or its exception has been       *)
(* logged, and the loop is back in sel.select()                            *)
select ==
    /\ last # Idle
    /\ last' = Idle
    /\ UNCHANGED <<clients, files, conns, now, sent_uploads, failed>>

(* the values a call draws: uuid4 (read by the registration handler only), *)
(* the socket and the clock                                                *)
Envs(handler, msg) ==
    {[uuid |-> u, plan |-> p, now |-> now] :
        u \in (IF handler = "handle_registration_request" THEN Uuids ELSE {Uuid4(1)}),
        p \in (IF msg = <<>> THEN {<<>>} ELSE Plans)}

(* the select loop calls Server.read for a readable connection: msg is     *)
(* what the client sent, <<>> when it closed its end; recv returns at most *)
(* PACKET_SIZE bytes of it.  The record keeps what the socket did only for *)
(* a callback that sent                                                    *)
Read(c, msg) ==
    /\ last = Idle
    /\ conns[c] = "open"
    /\ \E env \in Envs("none", msg) :
         \E data \in {Slice(msg, 0, PACKET_SIZE)} :
           \E r \in {read(clients, files, data, env)} :
             /\ clients' = r.clients
             /\ files' = r.files
             /\ now' = r.now
             /\ conns' = [conns EXCEPT ![c] = IF r.closed THEN "closed" ELSE "open"]
             /\ last' = [conn |-> c, data |-> data, uuid |-> env.uuid,
                         plan |-> IF r.frames = <<>> THEN <<>> ELSE env.plan,
                         handler |-> r.handler,
                         ret |-> r.ret, raised |-> r.raised, closed |-> r.closed,
                         frames |-> r.frames, wire |-> r.wire]
             /\ sent_uploads' = sent_uploads
             /\ failed' = IF r.raised THEN failed \cup {c} ELSE failed

ReadRequest == \E c \in Conns : \E msg \in Messages : Read(c, msg)

(* the same callback, with the history of what was sent kept *)
ReadRecorded(c, msg) ==
    /\ last = Idle
    /\ conns[c] = "open"
    /\ \E env \in Envs("none", msg) :
         \E data \in {Slice(msg, 0, PACKET_SIZE)} :
           \E r \in {read(clients, files, data, env)} :
             /\ clients' = r.clients
             /\ files' = r.files
             /\ now' = r.now
             /\ conns' = [conns EXCEPT ![c] = IF r.closed THEN "closed" ELSE "open"]
             /\ last' = [conn |-> c, data |-> data, uuid |-> env.uuid,
                         plan |-> IF r.frames = <<>> THEN <<>> ELSE env.plan,
                         handler |-> r.handler,
                         ret |-> r.ret, raised |-> r.raised, closed |-> r.closed,
                         frames |-> r.frames, wire |-> r.wire]
             /\ sent_uploads' = IF msg \in Uploads THEN sent_uploads \cup {msg}
                                 ELSE sent_uploads
             /\ failed' = failed

ReadRecordedRequest == \E c \in Conns : \E msg \in Messages : ReadRecorded(c, msg)

(* the client closes its end: recv returns b"" *)
ReadEof == \E c \in Conns : Read(c, <<>>)

Accept == \E c \in Conns : accept(c)

Next == Accept \/ ReadRequest \/ ReadEof \/ select

Spec == Init /\ [][Next]_vars

(* A handler is called with an open connection and the data received on   *)
(* it, as line 61 would call it; it does not close the connection.  The    *)
(* clock advances by the times the handler read it.                        *)
Handle(c, handler, msg) ==
    /\ last = Idle
    /\ conns[c] = "open"
    /\ now < MaxRequests
    /\ \E env \in Envs(handler, msg) :
         \E data \in {Slice(msg, 0, PACKET_SIZE)} :
           \E r \in {CallHandler(handler, clients, files, data, env)} :
             /\ clients' = r.clients
             /\ files' = r.files
             /\ now' = now + r.ticks
             /\ conns' = conns
             /\ last' = [conn |-> c, data |-> data, uuid |-> env.uuid,
                         plan |-> IF r.frames = <<>> THEN <<>> ELSE env.plan,
                         handler |-> handler,
                         ret |-> r.ret, raised |-> r.ret = "raise", closed |-> FALSE,
                         frames |-> r.frames, wire |-> r.wire]
             /\ sent_uploads' = sent_uploads
             /\ failed' = failed

HandleRequest ==
    \E c \in Conns : \E handler \in Handlers : \E msg \in Messages : Handle(c, handler, msg)

(* one connection has been accepted; the handlers are called on it *)
InitHandlers ==
    /\ clients = <<>>
    /\ files = <<>>
    /\ conns = [c \in Conns |-> IF c = 1 THEN "open" ELSE "closed"]
    /\ now = 0
    /\ last = Idle
    /\ sent_uploads = {}
    /\ failed = {}

NextHandlers == HandleRequest \/ select

SpecHandlers == InitHandlers /\ [][NextHandlers]_vars

(* The server opens a database file that already holds a row: the client  *)
(* "a" with a public key and a symmetric key (CREATE TABLE fails on the    *)
(* existing table, executescript swallows the failure and the file keeps   *)
(* what it holds).  LastSeen is a time before this run's clock.            *)
InitStored ==
    /\ clients = <<[ID |-> Uuid4(1), Name |-> Utf8Decode(NameA).s, PublicKey |-> RsaKey(1),
                    LastSeen |-> -1, AESKey |-> AesKey(1)]>>
    /\ files = <<>>
    /\ conns = [c \in Conns |-> "closed"]
    /\ now = 0
    /\ last = Idle
    /\ sent_uploads = {}
    /\ failed = {}

NextStored == Accept \/ ReadRecordedRequest \/ ReadEof \/ select

SpecStored == InitStored /\ [][NextStored]_vars

(***************************************************************************)
(* Server.write on its own: it is called with a response of a length       *)
(* around the segment boundaries and a socket that takes, takes part of or *)
(* refuses each of the first sends.  The record of the call is kept in     *)
(* last: frames holds the data passed to write, plan what the socket does, *)
(* and, when write has ended, ret, segs and wire what it returned, offered *)
(* to conn.send and got the socket to take.                                *)
(***************************************************************************)
WriteLengths ==
    {1} \cup {k * PACKET_SIZE + j : k \in 1..MaxSegments, j \in {-1, 0, 1}}

(* response bytes; the last one is 0, as a padding byte is *)
WriteData(n, b) == [i \in 1..n |-> (b * (n - i)) % 256]

(* the response to an upload as handle_send_file_request fills it in: the  *)
(* content size and the file name are the 1-tuples of the request          *)
UploadResponse ==
    [header |-> [ResponseHeader(RESPONSE_SUCCESS_FILE_WITH_CRC)
                    EXCEPT !.payloadSize = CLIENT_ID_SIZE + CONTENT_SIZE
                                           + NAME_SIZE + CHECKSUM_SIZE],
     clientID |-> Uuid4(1), contentSize |-> PyTuple(16),
     fileName |-> PyTuple(PackS(FILE_NAME_SIZE, FileF)), ckSum |-> PyInt(DEFAULT_VALUE)]

WriteInputs ==
    {WriteData(n, b) : n \in WriteLengths, b \in {1, 255}}
    \cup {ResponseHeader_pack(ResponseHeader(RESPONSE_ERROR)),
          FileReceivedWithCRCResponse_pack(UploadResponse)}

SendOutcomes == {"all", "partial", "error"}

WritePlans ==
    {<<>>} \cup {<<a>> : a \in SendOutcomes}
           \cup {<<a, b>> : a \in SendOutcomes, b \in SendOutcomes}

WriteCalled(data, plan) ==
    [conn |-> 1, data |-> <<>>, uuid |-> <<>>, plan |-> plan,
     handler |-> "write", ret |-> "none", raised |-> FALSE, closed |-> FALSE,
     frames |-> <<data>>, wire |-> <<>>, segs |-> <<>>]

InitWrite ==
    /\ clients = <<>>
    /\ files = <<>>
    /\ conns = [c \in Conns |-> IF c = 1 THEN "open" ELSE "closed"]
    /\ now = 0
    /\ sent_uploads = {}
    /\ failed = {}
    /\ \E data \in WriteInputs : \E plan \in WritePlans : last = WriteCalled(data, plan)

(* write runs to its return or to the exception that leaves it *)
WriteReturns ==
    /\ last.handler = "write"
    /\ last.ret = "none"
    /\ \E w \in {write(last.frames[1], last.plan)} :
          last' = [last EXCEPT !.ret = w.ret, !.raised = (w.ret = "raise"),
                               !.segs = w.segs, !.wire = w.wire]
    /\ UNCHANGED <<clients, files, conns, now, sent_uploads, failed>>

NextWrite == WriteReturns

SpecWrite == InitWrite /\ [][NextWrite]_vars

(***************************************************************************)
(* RequestHeader.unpack on its own: it is called on a header object, new   *)
(* or filled by an earlier decode, with the first bytes of a request, from *)
(* none to one more than a header.  The record of the call is kept in      *)
(* last: data is the bytes, before the object as it was, header the object *)
(* as it is, ret what unpack returned.                                     *)
(***************************************************************************)
HeaderSources ==
    {RequestHeaderBytes(Uuid4(1), REQUEST_REGISTRATION, NAME_SIZE) \o NameA,
     RequestHeaderBytes(Uuid4(2), REQUEST_CRC_VALID, 0) \o <<0>>}

HeaderInputs ==
    {Slice(m, 0, n) : m \in HeaderSources, n \in 0..(RequestHeader_SIZE + 1)}

HeaderObjects ==
    {RequestHeader_init,
     RequestHeader_unpack(RequestHeaderBytes(Uuid4(2), REQUEST_SEND_FILE, 1)).h}

UnpackCalled(self, data) ==
    [conn |-> 1, data |-> data, uuid |-> <<>>, plan |-> <<>>,
     handler |-> "unpack", ret |-> "none", raised |-> FALSE, closed |-> FALSE,
     frames |-> <<>>, wire |-> <<>>, before |-> self, header |-> self]

InitUnpack ==
    /\ clients = <<>>
    /\ files = <<>>
    /\ conns = [c \in Conns |-> IF c = 1 THEN "open" ELSE "closed"]
    /\ now = 0
    /\ sent_uploads = {}
    /\ failed = {}
    /\ \E self \in HeaderObjects : \E data \in HeaderInputs :
          last = UnpackCalled(self, data)

UnpackReturns ==
    /\ last.handler = "unpack"
    /\ last.ret = "none"
    /\ \E u \in {RequestHeader_unpack_self(last.header, last.data)} :
          last' = [last EXCEPT !.ret = IF u.ok THEN "True" ELSE "False", !.header = u.h]
    /\ UNCHANGED <<clients, files, conns, now, sent_uploads, failed>>

NextUnpack == UnpackReturns

SpecUnpack == InitUnpack /\ [][NextUnpack]_vars

(***************************************************************************)
(* Reading the record of a call.  A response frame is a byte string passed *)
(* to Server.write: "answered with code k" means that a frame was passed   *)
(* to write and that every frame passed carries k in its header.           *)
(***************************************************************************)
FrameCode(f) == IF Len(f) >= HEADER_SIZE THEN UnpackH(SubSeq(f, 2, 3)) ELSE -1
FramePayloadSize(f) == IF Len(f) >= HEADER_SIZE THEN UnpackL(SubSeq(f, 4, 7)) ELSE -1
FramePayload(f) == SubSeq(f, HEADER_SIZE + 1, Len(f))

(* the callback l read request data *)
ServedRequest(l) == l # Idle /\ l.data # <<>>
AnsweredWith(l, code) ==
    /\ l.frames # <<>>
    /\ \A i \in 1..Len(l.frames) : FrameCode(l.frames[i]) = code

(* the handler that lines 36-41 of server.py list a request code with *)
HandlerOfCode ==
    [code \in RequestCodes |->
        CASE code = REQUEST_REGISTRATION -> "handle_registration_request"
          [] code = REQUEST_SEND_PUBLIC_KEY -> "handle_encrypted_key_response"
          [] code = REQUEST_SEND_FILE -> "handle_send_file_request"
          [] code = REQUEST_CRC_VALID -> "handle_crc_valid_request"
          [] code = REQUEST_CRC_INVALID -> "handle_crc_invalid_request"
          [] code = REQUEST_CRC_INVALID_FOURTH_TIME -> "handle_crc_invalid_fourth_time_request"]

(* the request kind of the call l: the handler that was called or, for a   *)
(* callback that called none, the handler its request code is listed with  *)
Kind(l) ==
    IF l.handler # "none" THEN l.handler
    ELSE IF /\ RequestHeader_unpack(l.data).ok
            /\ RequestHeader_unpack(l.data).h.code \in RequestCodes
    THEN HandlerOfCode[RequestHeader_unpack(l.data).h.code]
    ELSE "none"

(* l is a Registration request that decodes *)
RegistrationFor(l) ==
    /\ Kind(l) = "handle_registration_request"
    /\ RegistrationRequest_unpack(l.data).ok
RequestedName(l) == RegistrationRequest_unpack(l.data).name.v

(* l is a SendPublicKey request that decodes *)
PublicKeyFor(l) ==
    /\ Kind(l) = "handle_encrypted_key_response"
    /\ PublicKeyRequest_unpack(l.data).ok

NameStored(table, n) == \E i \in 1..Len(table) : table[i].Name = n
IdStored(table, id) == \E i \in 1..Len(table) : table[i].ID = id

(* the table without its LastSeen column *)
WithoutLastSeen(table) ==
    [i \in 1..Len(table) |-> [table[i] EXCEPT !.LastSeen = 0]]

(***************************************************************************)
(* C1.  For every name n: a Registration for n is answered with 2100 only  *)
(* if no record named n was stored before it, and it then stores one; a    *)
(* record once stored stays stored; every Registration for n processed     *)
(* while a record named n is stored is answered with 2101; and the clients *)
(* table never holds two records with the same name.  Hence at most one    *)
(* Registration for n is ever answered with 2100.                          *)
(***************************************************************************)
C1_Step ==
    /\ \A i \in 1..Len(clients) : NameStored(clients', clients[i].Name)
    /\ RegistrationFor(last') =>
          /\ AnsweredWith(last', RESPONSE_REGISTRATION_SUCCESS) =>
                /\ ~NameStored(clients, RequestedName(last'))
                /\ NameStored(clients', RequestedName(last'))
          /\ NameStored(clients, RequestedName(last')) =>
                AnsweredWith(last', RESPONSE_REGISTRATION_FAILED)
    /\ \A i, j \in 1..Len(clients') : clients'[i].Name = clients'[j].Name => i = j

C1_SameNameRegistersOnce == [][C1_Step]_vars

(* a Registration for a name that is stored has just been refused *)
C1_Witness ==
    /\ RegistrationFor(last)
    /\ AnsweredWith(last, RESPONSE_REGISTRATION_FAILED)
    /\ NameStored(clients, RequestedName(last))
    /\ ~IdStored(clients, last.uuid)

(***************************************************************************)
(* C2.  A Registration whose name is empty, or holds a character that is   *)
(* neither alphabetic nor a space, is answered with 2101 and a frame that  *)
(* carries no identity, and no record with that name is in the clients     *)
(* table afterwards.                                                       *)
(***************************************************************************)
NameIllegal(n) ==
    \/ n = <<>>
    \/ \E i \in 1..Len(n) : ~(IsAlpha(n[i]) \/ IsSpace(n[i]))

C2_IllegalNameRefused ==
    (RegistrationFor(last) /\ NameIllegal(RequestedName(last))) =>
        /\ AnsweredWith(last, RESPONSE_REGISTRATION_FAILED)
        /\ FramePayload(last.frames[1]) = <<>>
        /\ ~NameStored(clients, RequestedName(last))

(***************************************************************************)
(* C3.  A Registration answered with 2100 appends exactly one record to    *)
(* the clients table; the id of that record is 16 bytes long and differs   *)
(* from the id of every record stored before; the 2100 frame has payload   *)
(* size 16 and its payload is that id; and the clients table never holds   *)
(* two records with the same id.                                           *)
(***************************************************************************)
C3_Step ==
    /\ (last'.handler = "handle_registration_request"
        /\ AnsweredWith(last', RESPONSE_REGISTRATION_SUCCESS)) =>
          /\ Len(clients') = Len(clients) + 1
          /\ WithoutLastSeen(SubSeq(clients', 1, Len(clients))) = WithoutLastSeen(clients)
          /\ Len(clients'[Len(clients')].ID) = CLIENT_ID_SIZE
          /\ ~IdStored(clients, clients'[Len(clients')].ID)
          /\ FramePayloadSize(last'.frames[1]) = CLIENT_ID_SIZE
          /\ FramePayload(last'.frames[1]) = clients'[Len(clients')].ID
    /\ \A i, j \in 1..Len(clients') : clients'[i].ID = clients'[j].ID => i = j

C3_FreshIdentity == [][C3_Step]_vars

(* a second client has just been registered *)
C3_Witness ==
    /\ last.handler = "handle_registration_request"
    /\ AnsweredWith(last, RESPONSE_REGISTRATION_SUCCESS)
    /\ Len(clients) = 2
    /\ FramePayload(last.frames[1]) = clients[2].ID

(***************************************************************************)
(* C4.  A callback that read request data passed exactly one frame to      *)
(* write and closed the connection.                                        *)
(***************************************************************************)
C4_OneResponsePerRequest ==
    ServedRequest(last) => (Len(last.frames) = 1 /\ last.closed)

(***************************************************************************)
(* C5.  A request whose header does not decode, or whose code is not one   *)
(* of the six request codes, is answered with one 9999 frame of payload    *)
(* size 0 and no payload, no handler runs, and                             *)
(* no client record and no file record is created or changed.              *)
(***************************************************************************)
GenericError == PackB(SERVER_VERSION) \o PackH(RESPONSE_ERROR) \o PackL(0)

(* the callback l read a request with no decodable header or no known code *)
UnknownRequest(l) ==
    /\ ServedRequest(l)
    /\ \/ ~RequestHeader_unpack(l.data).ok
       \/ RequestHeader_unpack(l.data).h.code \notin RequestCodes

(* table and table2 differ at most in the LastSeen of the record with id *)
OnlyLastSeenOf(table, table2, id) ==
    /\ Len(table2) = Len(table)
    /\ \A i \in 1..Len(table) :
          \/ table2[i] = table[i]
          \/ /\ table[i].ID = id
             /\ table2[i] = [table[i] EXCEPT !.LastSeen = table2[i].LastSeen]

C5_OriginalStep ==
    UnknownRequest(last') =>
        /\ last'.frames = <<GenericError>>
        /\ last'.handler = "none"
        /\ clients' = clients
        /\ files' = files

C5_UnknownRequestChangesNothing == [][C5_OriginalStep]_vars

(***************************************************************************)
(* C6.  For every request kind: when the header decodes and the payload    *)
(* does not, the request is answered with one 9999 frame, no file record   *)
(* changes and no field of a client record other than LastSeen changes.    *)
(***************************************************************************)
PayloadDecodes(l) ==
    CASE Kind(l) = "handle_registration_request" -> RegistrationRequest_unpack(l.data).ok
      [] Kind(l) = "handle_encrypted_key_response" -> PublicKeyRequest_unpack(l.data).ok
      [] Kind(l) = "handle_send_file_request" -> FileSendRequest_unpack(l.data).ok
      [] Kind(l) = "handle_crc_valid_request" -> CRCValidRequest_unpack(l.data).ok
      [] Kind(l) = "handle_crc_invalid_request" -> CRCNotValidRequest_unpack(l.data).ok
      [] Kind(l) = "handle_crc_invalid_fourth_time_request" ->
            CRCNotValidFourthTimeRequest_unpack(l.data).ok
      [] OTHER -> TRUE

C6_Step ==
    (ServedRequest(last') /\ Kind(last') # "none" /\ ~PayloadDecodes(last')) =>
        /\ last'.frames = <<GenericError>>
        /\ files' = files
        /\ WithoutLastSeen(clients') = WithoutLastSeen(clients)

C6_UndecodablePayloadSkipsHandler == [][C6_Step]_vars

(***************************************************************************)
(* C7.  A request with code 1100, 1101, 1103, 1104, 1105 or 1106 is given  *)
(* to the Registration, SendPublicKey, SendFile, CrcValid, CrcInvalid or   *)
(* CrcInvalidFourthTime handler respectively, and a request with code 1105 *)
(* is not answered with a 9999 frame.                                      *)
(***************************************************************************)
KindHandler ==
    [code \in {1100, 1101, 1103, 1104, 1105, 1106} |->
        CASE code = 1100 -> "handle_registration_request"
          [] code = 1101 -> "handle_encrypted_key_response"
          [] code = 1103 -> "handle_send_file_request"
          [] code = 1104 -> "handle_crc_valid_request"
          [] code = 1105 -> "handle_crc_invalid_request"
          [] code = 1106 -> "handle_crc_invalid_fourth_time_request"]

C7_DispatchByCode ==
    (/\ ServedRequest(last)
     /\ RequestHeader_unpack(last.data).ok
     /\ RequestHeader_unpack(last.data).h.code \in DOMAIN KindHandler) =>
        /\ last.handler = KindHandler[RequestHeader_unpack(last.data).h.code]
        /\ RequestHeader_unpack(last.data).h.code = 1105 =>
              \A i \in 1..Len(last.frames) : FrameCode(last.frames[i]) # RESPONSE_ERROR

(***************************************************************************)
(* C10.  A SendPublicKey request that names no stored client is answered   *)
(* with a 9999 frame, no file record changes and no field of a client      *)
(* record other than LastSeen changes.                                     *)
(***************************************************************************)
C10_Step ==
    (/\ PublicKeyFor(last')
     /\ ~NameStored(clients, PublicKeyRequest_unpack(last'.data).name.v)) =>
        /\ AnsweredWith(last', RESPONSE_ERROR)
        /\ files' = files
        /\ WithoutLastSeen(clients') = WithoutLastSeen(clients)

C10_UnknownClientReported == [][C10_Step]_vars

(* l is a SendFile request *)
SendFileFor(l) == l # Idle /\ Kind(l) = "handle_send_file_request"

(***************************************************************************)
(* C11.  A SendFile addressed to a client that is not stored is answered   *)
(* with 9999 and leaves the files table as it was.                         *)
(***************************************************************************)
C11_Step ==
    (/\ SendFileFor(last')
     /\ ~IdStored(clients, RequestHeader_unpack(last'.data).h.clientID)) =>
        /\ AnsweredWith(last', RESPONSE_ERROR)
        /\ files' = files

C11_FailedUploadGenericError == [][C11_Step]_vars

(* what clients upload: file names and plaintexts *)
FileNames == {FileF}
Plaintexts == {<<1, 2, 3>>}

(* the symmetric keys clients hold *)
UploadKeys == {AesKey(1)}

(* table stores a symmetric key for the client cid *)
KeyStored(table, cid) ==
    \E i \in 1..Len(table) : table[i].ID = cid /\ table[i].AESKey \in UploadKeys

(* the call l is a SendFile that was given the upload a client made of the *)
(* plaintext p as file fname of client cid, under the key that table       *)
(* stores for cid                                                          *)
UploadFor(table, l, cid, fname, p) ==
    /\ SendFileFor(l)
    /\ KeyStored(table, cid)
    /\ l.data = Slice(UploadMsg(cid, fname, get_client_aes(table, cid).v, p),
                      0, PACKET_SIZE)

(* the files table holds a record of client id named name, not verified *)
UnverifiedRecord(table, id, name) ==
    \E i \in 1..Len(table) :
        table[i].ID = id /\ table[i].FileName = name /\ table[i].Verified = FALSE

(***************************************************************************)
(* C12.  After a SendFile in which a stored client c uploads the file name *)
(* f with content encrypted under the key stored for c, the files table    *)
(* holds a record of c with FileName f and Verified false.                 *)
(***************************************************************************)
C12_Step ==
    \A cid \in Uuids : \A fname \in FileNames : \A p \in Plaintexts :
        UploadFor(clients, last', cid, fname, p) =>
            UnverifiedRecord(files', cid, Utf8Decode(fname).s)

C12_UploadStoresUnverifiedRecord == [][C12_Step]_vars

(***************************************************************************)
(* C13.  Such a SendFile is answered with 2103, and the payload of the     *)
(* frame is the request's client id, its content size, its file-name field *)
(* and the CRC-32 of the plaintext that was encrypted.                     *)
(***************************************************************************)
C13_Step ==
    \A cid \in Uuids : \A fname \in FileNames : \A p \in Plaintexts :
        UploadFor(clients, last', cid, fname, p) =>
            /\ AnsweredWith(last', RESPONSE_SUCCESS_FILE_WITH_CRC)
            /\ FramePayload(last'.frames[1]) =
                  cid \o PackL(Len(Pad(p, AES_BLOCK_SIZE)))
                      \o PackS(FILE_NAME_SIZE, fname) \o Crc32(p)

C13_UploadAnsweredWithChecksum == [][C13_Step]_vars

(***************************************************************************)
(* C14.  For a stored client with the stored key k and a plaintext p, a    *)
(* SendFile whose content is the CBC encryption of p under k succeeds: the *)
(* handler returns True, and the checksum it answers with is that of p.    *)
(***************************************************************************)
C14_Step ==
    \A cid \in Uuids : \A fname \in FileNames : \A p \in Plaintexts :
        UploadFor(clients, last', cid, fname, p) =>
            /\ last'.ret = "True"
            /\ SubSeq(last'.frames[1], Len(last'.frames[1]) - CHECKSUM_SIZE + 1,
                      Len(last'.frames[1])) = Crc32(p)

C14_EncryptedUploadSucceeds == [][C14_Step]_vars

(* the call l ran the handler named, or is the callback of a request with  *)
(* its code, on a request that decodes                                     *)
CrcRequestFor(l, handler) ==
    l # Idle /\ Kind(l) = handler /\ CRCRequest_unpack(l.data).ok

(* the call l was given the request with this code that client cid makes   *)
(* for the file fname after having sent an upload of it                    *)
CrcAfterUpload(table, l, code, cid, fname) ==
    /\ l # Idle
    /\ l.data = Slice(CrcMsg(code, cid, fname), 0, PACKET_SIZE)
    /\ KeyStored(table, cid)
    /\ \E p \in Plaintexts :
          UploadMsg(cid, fname, get_client_aes(table, cid).v, p) \in sent_uploads

(***************************************************************************)
(* C15.  A CrcValid from a client c for a file that c has uploaded (C12:   *)
(* an unverified record of it is then stored) is answered with 2104 and a  *)
(* payload that is c's id, and the record of c is verified afterwards.     *)
(***************************************************************************)
C15_Step ==
    \A cid \in Uuids : \A fname \in FileNames :
        (/\ CrcRequestFor(last', "handle_crc_valid_request")
         /\ CrcAfterUpload(clients, last', REQUEST_CRC_VALID, cid, fname))
        => /\ AnsweredWith(last', RESPONSE_MSG_RECEIVED_THANKS)
           /\ FramePayload(last'.frames[1]) = cid
           /\ \E i \in 1..Len(files') :
                 /\ files'[i].ID = cid
                 /\ files'[i].FileName = Utf8Decode(fname).s
                 /\ files'[i].Verified = TRUE

C15_CrcValidVerifiesUpload == [][C15_Step]_vars

(***************************************************************************)
(* C17.  When a CrcInvalidFourthTime from a client c for a file that c has *)
(* uploaded has been processed, it has been answered with 2104 and the     *)
(* record of the upload is stored with Verified false.                     *)
(***************************************************************************)
C17_Step ==
    \A cid \in Uuids : \A fname \in FileNames :
        (/\ CrcRequestFor(last', "handle_crc_invalid_fourth_time_request")
         /\ CrcAfterUpload(clients, last', REQUEST_CRC_INVALID_FOURTH_TIME, cid, fname))
        => /\ AnsweredWith(last', RESPONSE_MSG_RECEIVED_THANKS)
           /\ UnverifiedRecord(files', cid, Utf8Decode(fname).s)

C17_AbandonedUploadStaysUnverified == [][C17_Step]_vars

(***************************************************************************)
(* C18.  The CrcInvalid handler changes no file record and no field of a   *)
(* client record other than the LastSeen of the client it addresses, in    *)
(* whatever state it is called; and the SendFile handler makes of every    *)
(* request after it what it would have made of it before: same result,     *)
(* same frames, same tables.                                               *)
(***************************************************************************)
(* what the SendFile handler makes of the request msg on a socket that     *)
(* takes every byte, the clock aside                                       *)
Outcome(table, ftable, msg) ==
    LET of(r) == [ret |-> r.ret, frames |-> r.frames, files |-> r.files,
                  clients |-> WithoutLastSeen(r.clients)]
    IN of(handle_send_file_request(table, ftable, msg,
                                   [uuid |-> Uuid4(1), plan |-> <<>>, now |-> 0]))

C18_Step ==
    last'.handler = "handle_crc_invalid_request" =>
        /\ files' = files
        /\ OnlyLastSeenOf(clients, clients', RequestHeader_unpack(last'.data).h.clientID)
        /\ \A msg \in Messages :
              Outcome(clients', files', msg) = Outcome(clients, files, msg)

C18_CrcInvalidKeepsNoState == [][C18_Step]_vars

(* the handler has just been called for a CrcInvalid from a stored client  *)
(* and has reported success without a response                             *)
C18_Witness ==
    /\ last.handler = "handle_crc_invalid_request"
    /\ RequestHeader_unpack(last.data).h.code = REQUEST_CRC_INVALID
    /\ CRCNotValidRequest_unpack(last.data).ok
    /\ last.ret = "True"
    /\ last.frames = <<>>
    /\ IdStored(clients, RequestHeader_unpack(last.data).h.clientID)

(***************************************************************************)
(* C19.  A CrcValid or a CrcInvalidFourthTime addressed to a client of     *)
(* which no file record is stored is not acknowledged with 2104: it is     *)
(* answered with the error response 9999, and no file record is created or *)
(* changed.                                                                *)
(***************************************************************************)
HasFileRecord(table, id) == \E i \in 1..Len(table) : table[i].ID = id

C19_Step ==
    (/\ \/ CrcRequestFor(last', "handle_crc_valid_request")
        \/ CrcRequestFor(last', "handle_crc_invalid_fourth_time_request")
     /\ ~HasFileRecord(files, CRCRequest_unpack(last'.data).header.clientID))
    => /\ \A i \in 1..Len(last'.frames) :
             FrameCode(last'.frames[i]) # RESPONSE_MSG_RECEIVED_THANKS
       /\ AnsweredWith(last', RESPONSE_ERROR)
       /\ files' = files

C19_NoRecordNoAcknowledgement == [][C19_Step]_vars

(***************************************************************************)
(* C20.  Whenever a request whose header decodes and whose client id is    *)
(* stored has been processed, whatever its handler did, the LastSeen of    *)
(* that client is the time read at the end of the callback, and the        *)
(* LastSeen of every other stored client is what it was.                   *)
(***************************************************************************)
C20_Step ==
    (/\ ServedRequest(last')
     /\ RequestHeader_unpack(last'.data).ok
     /\ IdStored(clients, RequestHeader_unpack(last'.data).h.clientID))
    => /\ now' > now
       /\ \A i \in 1..Len(clients) :
             /\ i <= Len(clients')
             /\ clients'[i].ID = clients[i].ID
             /\ clients'[i].LastSeen =
                   IF clients[i].ID = RequestHeader_unpack(last'.data).h.clientID
                   THEN now' ELSE clients[i].LastSeen

C20_EveryRequestUpdatesLastSeen == [][C20_Step]_vars

(***************************************************************************)
(* C21.  When a read callback has ended, whatever it read and however its  *)
(* request ended, the connection it read from is unregistered and closed.  *)
(***************************************************************************)
C21_ConnectionClosedAfterRead ==
    last # Idle => conns[last.conn] = "closed"

(***************************************************************************)
(* C22.  A callback, however it ends, changes the registration of no       *)
(* connection other than the one it read from, and the loop then returns   *)
(* to select with every registration as the callback left it; only a       *)
(* registered connection is served.  And once a callback on one connection *)
(* has been left by an exception, every callback that reads request data   *)
(* on another connection passes a response frame to write.                 *)
(***************************************************************************)
C22_Step ==
    /\ (last = Idle /\ last' # Idle) =>
          /\ conns[last'.conn] = "open"
          /\ \A d \in Conns \ {last'.conn} : conns'[d] = conns[d]
    /\ last # Idle => (last' = Idle /\ conns' = conns)
    /\ (/\ last = Idle
        /\ ServedRequest(last')
        /\ failed \ {last'.conn} # {}) => last'.frames # <<>>

C22_FailureLeavesOthersServed == [][C22_Step]_vars

(***************************************************************************)
(* C23.  When write has returned for data of length n > 0, it has offered  *)
(* ceil(n / 1024) segments to the socket, each of 1024 bytes, and their    *)
(* concatenation is the data followed by zero bytes only, none when n is a *)
(* multiple of 1024.                                                       *)
(***************************************************************************)
RECURSIVE Concat(_)
Concat(segs) == IF segs = <<>> THEN <<>> ELSE Head(segs) \o Concat(Tail(segs))

SegmentsOf(n) == (n + PACKET_SIZE - 1) \div PACKET_SIZE

WriteReturned(l) == l.handler = "write" /\ l.ret = "True"

C23_WriteChunksAndPads ==
    (WriteReturned(last) /\ Len(last.frames[1]) > 0) =>
        /\ Len(last.segs) = SegmentsOf(Len(last.frames[1]))
        /\ \A i \in 1..Len(last.segs) : Len(last.segs[i]) = PACKET_SIZE
        /\ Concat(last.segs) =
              last.frames[1]
              \o Zeros(SegmentsOf(Len(last.frames[1])) * PACKET_SIZE - Len(last.frames[1]))

(* write has returned for data one byte longer than a segment, in two      *)
(* segments                                                                *)
C23_Witness ==
    /\ WriteReturned(last)
    /\ Len(last.frames[1]) = PACKET_SIZE + 1
    /\ Len(last.segs) = 2
    /\ last.segs[1] = SubSeq(last.frames[1], 1, PACKET_SIZE)
    /\ last.segs[2] = <<last.frames[1][PACKET_SIZE + 1]>> \o Zeros(PACKET_SIZE - 1)

(***************************************************************************)
(* C24.  When write has returned True, the data it was given is not empty  *)
(* and the socket has taken every byte of it in order, padded to whole     *)
(* segments.                                                               *)
(***************************************************************************)
C24_ReportedSentIsComplete ==
    WriteReturned(last) =>
        /\ last.frames[1] # <<>>
        /\ last.wire = Concat(last.segs)
        /\ SubSeq(last.wire, 1, Len(last.frames[1])) = last.frames[1]

(***************************************************************************)
(* C25.  When RequestHeader.unpack has ended on bytes shorter than the     *)
(* 23-byte request header, it has returned False and the header is the     *)
(* empty one: clientID empty, version, code and payloadSize 0, whatever    *)
(* the bytes and whatever the header held before.  On a new header object  *)
(* the result is the one Server.read works with.                           *)
(***************************************************************************)
UnpackEnded(l) == l.handler = "unpack" /\ l.ret # "none"

C25_ShortHeaderLeavesEmptyHeader ==
    UnpackEnded(last) =>
        /\ Len(last.data) < RequestHeader_SIZE =>
              /\ last.ret = "False"
              /\ last.header = [clientID |-> <<>>, version |-> 0, code |-> 0,
                                payloadSize |-> 0]
        /\ RequestHeader_unpack_self(RequestHeader_init, last.data)
              = RequestHeader_unpack(last.data)

(* unpack has ended on bytes that hold a whole client id but not a whole   *)
(* header, called on a header that an earlier decode had filled            *)
C25_Witness ==
    /\ UnpackEnded(last)
    /\ Len(last.data) >= CLIENT_ID_SIZE
    /\ Len(last.data) < RequestHeader_SIZE
    /\ last.ret = "False"
    /\ last.header = RequestHeader_init
    /\ last.before # RequestHeader_init

=============================================================================
